---------------------------- MODULE Spec2Model ----------------------------
(***************************************************************************)
(* Model of the PerfMap lifecycle and of its background consumption loop   *)
(* (perf.go).                                                              *)
(*                                                                         *)
(* One PerfMap is modelled.  Its callers are the threads of Callers: they   *)
(* call Init, Start, Stop, Pause and Resume in any order, concurrently; each*)
(* Start that opens a kernel reader also launches one goroutine.           *)
(*                                                                         *)
(* Start and Stop hold the write side of stateLock for their whole body,   *)
(* so each is one action.  Pause holds only the read side and Resume holds *)
(* no lock at all, so each of them is three steps (guard, kernel call,     *)
(* state write) that interleave with everything the lock does not exclude. *)
(* The goroutine takes no lock: each of its statements that touches shared *)
(* state is one step.                                                      *)
(*                                                                         *)
(* The embedded Map (its state constants, stateLock, Init and close) and   *)
(* the error values are not part of perf.go; they are modelled from the    *)
(* written specification (sections 3, 4.1, 4.2, 4.4 and 7).                *)
(***************************************************************************)
EXTENDS Integers, Sequences, FiniteSets, TLC

(***************************************************************************)
(* Bounds of the model.                                                    *)
(***************************************************************************)
MaxReaders == 2   \* kernel reader handles opened over a run (successful opens)
MaxReads   == 2   \* records (or read errors) the kernel yields over a run
ErrChanCap == 1   \* capacity of the caller-provided PerfErrChan
WordBits   == 2   \* width of the counters given to Diff (uint64 in the code)

Callers == {"c1", "c2"}   \* the threads that call the PerfMap's methods
CPUs    == {0, 1}         \* lanes
Lens    == {1, 2}         \* byte lengths of live samples
Losts   == {1, 5}         \* lost-sample counts the kernel reports

(***************************************************************************)
(* The resource states, in the order the guards compare them.  closed is   *)
(* terminal: it is below the threshold of every guard.                     *)
(***************************************************************************)
closed      == -1
reset       == 0   \* "uninitialized"
initialized == 1
paused      == 2
running     == 3

VARIABLES
    opts,        \* PerfMapOptions: which optional fields are set
    snap,        \* the two statistics snapshots given to Diff, and its result
    state,       \* Map.state
    stateLock,   \* Map.stateLock: the number of holders of its read side (the
                 \* write side is only ever held within one action)
    perfReader,  \* PerfMap.perfReader: index into readers, 0 = nil
    readers,     \* every kernel reader handle ever opened: [closed, paused]
    loops,       \* loops[i]: the goroutine launched by the Start that opened handle i
    wg,          \* manager.wg counter
    stats,       \* PerfMapStats (meaningful when opts.PerfMapStats)
    errChan,     \* number of errors buffered in PerfErrChan
    nreads,      \* number of results the kernel has handed to Read calls
    dataCalls,   \* history: the records DataHandler was invoked with
    lostCalls,   \* history: the <<CPU, count>> LostHandler was invoked with
    pc,          \* pc[t]: where caller t is inside Pause or Resume
    seen,        \* seen[t]: the state the guard of t's call in progress read
    last,        \* the call that returned most recently: [op, ret, pre], pre
                 \* being the state its guard read
    everPaused,  \* history: some Pause has succeeded
    panicked     \* the process died on a nil perfReader dereference

vars == <<opts, snap, state, stateLock, perfReader, readers, loops, wg, stats,
          errChan, nreads, dataCalls, lostCalls, pc, seen, last, everPaused,
          panicked>>

(***************************************************************************)
(* Values.                                                                 *)
(***************************************************************************)
\* A Read result: err is a read error other than ErrClosed; otherwise a
\* perf.Record (RawSample is the sample's length).  seq numbers the results
\* in the order the kernel yields them.
Result(err, cpu, lost, len) ==
    [err |-> err, CPU |-> cpu, LostSamples |-> lost, RawSample |-> len, seq |-> 0]

NoRecord == Result(FALSE, 0, 0, 0)

\* What a Read that does not fail with ErrClosed can return: a read error,
\* a record reporting lost samples, or a live record.
ReadResults ==
    {Result(TRUE, 0, 0, 0)}
    \cup {Result(FALSE, c, n, 0) : c \in CPUs, n \in Losts}
    \cup {Result(FALSE, c, 0, l) : c \in CPUs, l \in Lens}

NewReader == [closed |-> FALSE, paused |-> FALSE]
NewLoop   == [pc |-> "spawned", h |-> 0, rec |-> NoRecord]

\* NewPerfMapStats(): no error, two empty maps.
EmptyMap == [c \in {} |-> 0]
NewPerfMapStats ==
    [ReadErrors |-> 0, RawSamples |-> EmptyMap, LostSamples |-> EmptyMap]

\* A faulty variant of the update, which the property C12 must reject: the
\* counter is overwritten.
MapAddFaulty(m, k, n) ==
    [c \in (DOMAIN m) \cup {k} |-> IF c = k THEN n ELSE m[c]]

\* Go's m[k] += n on a map: an absent key counts as 0 and is created.
MapAdd(m, k, n) ==
    [c \in (DOMAIN m) \cup {k} |->
        (IF c \in DOMAIN m THEN m[c] ELSE 0) + (IF c = k THEN n ELSE 0)]

\* The value a Go map read m[c] gives: 0 for an absent key.
MapGet(m, c) == IF c \in DOMAIN m THEN m[c] ELSE 0

(***************************************************************************)
(* PerfMapStats.Diff, on counters of WordBits bits.                        *)
(***************************************************************************)
Word == 2 ^ WordBits

\* Subtraction of two unsigned counters: it wraps around.
Sub(a, b) == (a + Word - b) % Word

\* A nil *PerfMapStats.
NilStats == [nil |-> TRUE]

\* The counter values and the per-lane maps the snapshots are drawn from.
CounterValues == {0, 1, Word - 1}
LaneMaps(values) ==
    UNION {[lanes -> values] : lanes \in SUBSET CPUs}

StatsValues ==
    {NilStats} \cup
    [ReadErrors : CounterValues, RawSamples : LaneMaps(CounterValues),
     LostSamples : LaneMaps({1, Word - 1})]

\* A faulty variant of Diff, which the property C13 must reject: it ranges
\* over the lanes of old.
DiffFaulty(new, old) ==
    IF new = NilStats \/ old = NilStats
    THEN NilStats
    ELSE [ReadErrors  |-> Sub(new.ReadErrors, old.ReadErrors),
          RawSamples  |-> [c \in DOMAIN old.RawSamples |->
                              Sub(MapGet(new.RawSamples, c), old.RawSamples[c])],
          LostSamples |-> [c \in DOMAIN old.LostSamples |->
                              Sub(MapGet(new.LostSamples, c), old.LostSamples[c])]]

Diff(new, old) ==
    IF new = NilStats \/ old = NilStats
    THEN NilStats
    ELSE [ReadErrors  |-> Sub(new.ReadErrors, old.ReadErrors),
          RawSamples  |-> [c \in DOMAIN new.RawSamples |->
                              Sub(new.RawSamples[c], MapGet(old.RawSamples, c))],
          LostSamples |-> [c \in DOMAIN new.LostSamples |->
                              Sub(new.LostSamples[c], MapGet(old.LostSamples, c))]]

\* Diff has not been called.
NotCalled == [called |-> FALSE]
NoSnapshot == [new |-> NilStats, old |-> NilStats, diff |-> NotCalled]
Snapshots == [new : StatsValues, old : StatsValues, diff : {NotCalled}]

OptionSets == [DataHandler : BOOLEAN, LostHandler : BOOLEAN,
               PerfErrChan : BOOLEAN, PerfMapStats : BOOLEAN]

\* The outcomes of a call into the kernel (TRUE: it succeeds).
Outcomes == BOOLEAN

\* A call returns ret; its guard had read the state pre.
Returned(op, ret, pre) == last' = [op |-> op, ret |-> ret, pre |-> pre]

\* stateLock.Lock() can be taken: nobody holds the read side.
LockFree == stateLock = 0

Init ==
    /\ opts \in OptionSets
    /\ snap \in Snapshots
    /\ state = reset
    /\ stateLock = 0
    /\ perfReader = 0
    /\ readers = <<>>
    /\ loops = <<>>
    /\ wg = 0
    /\ stats = NewPerfMapStats
    /\ errChan = 0
    /\ nreads = 0
    /\ dataCalls = <<>>
    /\ lostCalls = <<>>
    /\ pc = [t \in Callers |-> "idle"]
    /\ seen = [t \in Callers |-> reset]
    /\ last = [op |-> "none", ret |-> "nil", pre |-> reset]
    /\ everPaused = FALSE
    /\ panicked = FALSE

(***************************************************************************)
(* The embedded Map, modelled from the written specification.              *)
(***************************************************************************)
\* Map.Init: uninitialized -> initialized; a failure is propagated and
\* leaves the state as it was (sections 4.1, 4.2 and 7 (c)).
MapInit(ok) ==
    IF ok THEN state' = initialized ELSE state' = state

\* Map.close(cleanup): -> closed; a failure leaves the resource in the last
\* state it reached (sections 4.1, 4.4 and 7 (c)).
MapClose(cleanup, ok) ==
    IF ok THEN state' = closed ELSE state' = state

CleanupTypes == {"CleanInternal", "CleanAll"}

(***************************************************************************)
(* PerfMap.Init                                                            *)
(***************************************************************************)
\* A faulty variant of the check, which the property C14 must reject.
InitNoDataHandlerFaulty == FALSE

InitNoDataHandler == ~opts.DataHandler

\* Init is called on a resource that is not initialized yet (the only row
\* of the state table that has an Init transition).
PerfMapInit(t) ==
    /\ ~panicked /\ pc[t] = "idle" /\ LockFree
    /\ state = reset
    /\ IF InitNoDataHandler
       THEN /\ Returned("Init", "ErrNoDataHandler", state)
            /\ state' = state
       ELSE \E ok \in Outcomes :
            /\ MapInit(ok)
            /\ Returned("Init", IF ok THEN "nil" ELSE "ErrKernel", state)
    /\ UNCHANGED <<opts, snap, stateLock, perfReader, readers, loops, wg, stats,
                   errChan, nreads, dataCalls, lostCalls, pc, seen,
                   everPaused, panicked>>

(***************************************************************************)
(* PerfMap.Start: stateLock.Lock is held for the whole call.               *)
(***************************************************************************)
\* Faulty variants of the two guards, which the properties C4 and C5 must
\* tell from the real ones.
StartIsNoopFaulty  == FALSE
StartNotInitFaulty == state < reset

StartIsNoop  == state = running
StartNotInit == state < initialized

\* perf.NewReaderWithOptions succeeded: the new handle is stored, the
\* goroutine is launched and the state becomes running.
StartOpened ==
    /\ readers' = Append(readers, NewReader)
    /\ perfReader' = Len(readers) + 1
    /\ loops' = Append(loops, NewLoop)
    /\ state' = running
    /\ Returned("Start", "nil", state)

\* perf.NewReaderWithOptions failed: its nil result has been assigned to
\* m.perfReader before the error is returned.
StartOpenFailed ==
    /\ perfReader' = 0
    /\ Returned("Start", "ErrKernel", state)
    /\ UNCHANGED <<readers, loops, state>>

Start(t) ==
    /\ ~panicked /\ pc[t] = "idle" /\ LockFree
    /\ IF StartIsNoop
       THEN /\ Returned("Start", "nil", state)
            /\ UNCHANGED <<perfReader, readers, loops, state>>
       ELSE IF StartNotInit
       THEN /\ Returned("Start", "ErrMapNotInitialized", state)
            /\ UNCHANGED <<perfReader, readers, loops, state>>
       ELSE /\ Len(readers) < MaxReaders
            /\ \/ StartOpened
               \/ StartOpenFailed
    /\ UNCHANGED <<opts, snap, stateLock, wg, stats, errChan, nreads, dataCalls,
                   lostCalls, pc, seen, everPaused, panicked>>

(***************************************************************************)
(* PerfMap.Stop: stateLock.Lock is held for the whole call.                *)
(***************************************************************************)
StopIsNoop == state < running

\* perf.Reader.Close on handle h.
ReaderClose(h, ok) ==
    readers' = IF ok THEN [readers EXCEPT ![h].closed = TRUE] ELSE readers

\* A faulty variant of the result, which the property C15 must reject: the
\* map's error masks the reader's.
StopErrorFaulty(okReader, okMap) ==
    IF okMap
    THEN (IF okReader THEN "nil" ELSE "errReader")
    ELSE "errMap"

\* The error Stop returns from the two steps' outcomes.
StopError(okReader, okMap) ==
    IF okMap
    THEN (IF okReader THEN "nil" ELSE "errReader")
    ELSE (IF okReader THEN "errMap" ELSE "errMap+errReader")

Stop(t, cleanup) ==
    /\ ~panicked /\ pc[t] = "idle" /\ LockFree
    /\ IF StopIsNoop
       THEN /\ Returned("Stop", "nil", state)
            /\ UNCHANGED <<readers, state, panicked>>
       ELSE IF perfReader = 0
       THEN /\ panicked' = TRUE
            /\ UNCHANGED <<readers, state, last>>
       ELSE \E okReader \in Outcomes, okMap \in Outcomes :
            /\ ReaderClose(perfReader, okReader)
            /\ MapClose(cleanup, okMap)
            /\ Returned("Stop", StopError(okReader, okMap), state)
            /\ UNCHANGED panicked
    /\ UNCHANGED <<opts, snap, stateLock, perfReader, loops, wg, stats, errChan,
                   nreads, dataCalls, lostCalls, pc, seen, everPaused>>

(***************************************************************************)
(* PerfMap.Pause: stateLock.RLock is held from the guard to the return.    *)
(***************************************************************************)
\* A faulty variant of the guard, which the property C6 must reject.
PauseNotRunningFaulty == state < paused

PauseNotRunning == state < running

\* perf.Reader.Pause on handle h: an open handle stops yielding records.
ReaderPause(h, ok) ==
    readers' = IF ok /\ ~readers[h].closed
               THEN [readers EXCEPT ![h].paused = TRUE] ELSE readers

\* A faulty variant of the call, which the property C9 must reject: the
\* handle goes on yielding records.
PauseKernelCallFaulty(ok) == readers' = readers

\* m.perfReader.Pause()
PauseKernelCall(ok) == ReaderPause(perfReader, ok)

PauseEnter(t) ==
    /\ ~panicked /\ pc[t] = "idle"
    /\ IF PauseNotRunning
       THEN /\ Returned("Pause", "ErrMapNotRunning", state)
            /\ UNCHANGED <<pc, seen, stateLock>>
       ELSE /\ pc' = [pc EXCEPT ![t] = "pause_call"]
            /\ seen' = [seen EXCEPT ![t] = state]
            /\ stateLock' = stateLock + 1
            /\ UNCHANGED last
    /\ UNCHANGED <<opts, snap, state, perfReader, readers, loops, wg, stats,
                   errChan, nreads, dataCalls, lostCalls, everPaused, panicked>>

PauseCall(t) ==
    /\ ~panicked /\ pc[t] = "pause_call"
    /\ IF perfReader = 0
       THEN /\ panicked' = TRUE
            /\ UNCHANGED <<readers, pc, seen, stateLock, last>>
       ELSE \E ok \in Outcomes :
            /\ PauseKernelCall(ok)
            /\ IF ok
               THEN /\ pc' = [pc EXCEPT ![t] = "pause_write"]
                    /\ UNCHANGED <<seen, stateLock, last>>
               ELSE /\ pc' = [pc EXCEPT ![t] = "idle"]
                    /\ seen' = [seen EXCEPT ![t] = reset]
                    /\ stateLock' = stateLock - 1
                    /\ Returned("Pause", "ErrKernel", seen[t])
            /\ UNCHANGED panicked
    /\ UNCHANGED <<opts, snap, state, perfReader, loops, wg, stats, errChan,
                   nreads, dataCalls, lostCalls, everPaused>>

PauseWrite(t) ==
    /\ ~panicked /\ pc[t] = "pause_write"
    /\ state' = paused
    /\ everPaused' = TRUE
    /\ pc' = [pc EXCEPT ![t] = "idle"]
    /\ seen' = [seen EXCEPT ![t] = reset]
    /\ stateLock' = stateLock - 1
    /\ Returned("Pause", "nil", seen[t])
    /\ UNCHANGED <<opts, snap, perfReader, readers, loops, wg, stats, errChan,
                   nreads, dataCalls, lostCalls, panicked>>

(***************************************************************************)
(* PerfMap.Resume: takes no lock.                                          *)
(***************************************************************************)
\* A faulty variant of the guard, which the property C7 must reject.
ResumeNotRunningFaulty == state < initialized

ResumeNotRunning == state < paused

\* perf.Reader.Resume on handle h: an open handle yields records again.
ReaderResume(h, ok) ==
    readers' = IF ok /\ ~readers[h].closed
               THEN [readers EXCEPT ![h].paused = FALSE] ELSE readers

\* m.perfReader.Resume()
ResumeKernelCall(ok) == ReaderResume(perfReader, ok)

ResumeEnter(t) ==
    /\ ~panicked /\ pc[t] = "idle"
    /\ IF ResumeNotRunning
       THEN /\ Returned("Resume", "ErrMapNotRunning", state)
            /\ UNCHANGED <<pc, seen>>
       ELSE /\ pc' = [pc EXCEPT ![t] = "resume_call"]
            /\ seen' = [seen EXCEPT ![t] = state]
            /\ UNCHANGED last
    /\ UNCHANGED <<opts, snap, state, stateLock, perfReader, readers, loops, wg,
                   stats, errChan, nreads, dataCalls, lostCalls, everPaused,
                   panicked>>

ResumeCall(t) ==
    /\ ~panicked /\ pc[t] = "resume_call"
    /\ IF perfReader = 0
       THEN /\ panicked' = TRUE
            /\ UNCHANGED <<readers, pc, seen, last>>
       ELSE \E ok \in Outcomes :
            /\ ResumeKernelCall(ok)
            /\ IF ok
               THEN /\ pc' = [pc EXCEPT ![t] = "resume_write"]
                    /\ UNCHANGED <<seen, last>>
               ELSE /\ pc' = [pc EXCEPT ![t] = "idle"]
                    /\ seen' = [seen EXCEPT ![t] = reset]
                    /\ Returned("Resume", "ErrKernel", seen[t])
            /\ UNCHANGED panicked
    /\ UNCHANGED <<opts, snap, state, stateLock, perfReader, loops, wg, stats,
                   errChan, nreads, dataCalls, lostCalls, everPaused>>

ResumeWrite(t) ==
    /\ ~panicked /\ pc[t] = "resume_write"
    /\ state' = running
    /\ pc' = [pc EXCEPT ![t] = "idle"]
    /\ seen' = [seen EXCEPT ![t] = reset]
    /\ Returned("Resume", "nil", seen[t])
    /\ UNCHANGED <<opts, snap, stateLock, perfReader, readers, loops, wg, stats,
                   errChan, nreads, dataCalls, lostCalls, everPaused, panicked>>

(***************************************************************************)
(* The goroutine launched by Start.  Loop i is the one launched together   *)
(* with handle i; it reads m.perfReader anew for every Read.               *)
(***************************************************************************)
LoopIds == 1..Len(loops)

SetLoop(i, newpc, h, rec) ==
    loops' = [loops EXCEPT ![i] = [pc |-> newpc, h |-> h, rec |-> rec]]

\* The loop comes back to m.perfReader.Read(): it blocks on the handle that
\* m.perfReader names at this moment, and dies on a nil one.  (The statement
\* before it touches nothing a caller touches, so the two are one step.)
CallRead(i) ==
    IF perfReader = 0
    THEN panicked' = TRUE /\ UNCHANGED loops
    ELSE SetLoop(i, "reading", perfReader, NoRecord) /\ UNCHANGED panicked

\* m.manager.wg.Add(1), the goroutine's first statement, then the first Read.
LoopAdd(i) ==
    /\ ~panicked /\ loops[i].pc = "spawned"
    /\ wg' = wg + 1
    /\ CallRead(i)
    /\ UNCHANGED <<opts, snap, state, stateLock, perfReader, readers, stats, errChan,
                   nreads, dataCalls, lostCalls, pc, seen, last, everPaused>>

\* Read fails with perf.ErrClosed: wg.Done() and return.
LoopReadClosed(i) ==
    /\ ~panicked /\ loops[i].pc = "reading"
    /\ readers[loops[i].h].closed
    /\ wg' = wg - 1
    /\ SetLoop(i, "done", loops[i].h, NoRecord)
    /\ UNCHANGED <<opts, snap, state, stateLock, perfReader, readers, stats, errChan,
                   nreads, dataCalls, lostCalls, pc, seen, last, everPaused,
                   panicked>>

\* Read returns: the kernel yields a record or a read error.  A paused
\* handle yields nothing.
LoopReadReturn(i, res) ==
    /\ ~panicked /\ loops[i].pc = "reading"
    /\ ~readers[loops[i].h].closed
    /\ ~readers[loops[i].h].paused
    /\ nreads < MaxReads
    /\ nreads' = nreads + 1
    /\ SetLoop(i, "have", loops[i].h, [res EXCEPT !.seq = nreads + 1])
    /\ UNCHANGED <<opts, snap, state, stateLock, perfReader, readers, wg, stats,
                   errChan, dataCalls, lostCalls, pc, seen, last, everPaused,
                   panicked>>

\* A faulty variant of the test, which the property C10 must reject.
IsLostFaulty(rec) == rec.LostSamples > 1

IsLost(rec) == rec.LostSamples > 0

\* A faulty variant of the step, which the property C19 must reject: the
\* error is counted and not forwarded.
LoopReadErrorFaulty(i) ==
    /\ ~panicked /\ loops[i].pc = "have" /\ loops[i].rec.err
    /\ stats' = IF opts.PerfMapStats
                THEN [stats EXCEPT !.ReadErrors = @ + 1] ELSE stats
    /\ CallRead(i)
    /\ UNCHANGED <<opts, snap, state, stateLock, perfReader, readers, wg, errChan,
                   nreads, dataCalls, lostCalls, pc, seen, last, everPaused>>

\* A read error other than ErrClosed: count it, then forward it.
LoopReadError(i) ==
    /\ ~panicked /\ loops[i].pc = "have" /\ loops[i].rec.err
    /\ stats' = IF opts.PerfMapStats
                THEN [stats EXCEPT !.ReadErrors = @ + 1] ELSE stats
    /\ IF opts.PerfErrChan
       THEN SetLoop(i, "senderr", loops[i].h, loops[i].rec) /\ UNCHANGED panicked
       ELSE CallRead(i)
    /\ UNCHANGED <<opts, snap, state, stateLock, perfReader, readers, wg, errChan,
                   nreads, dataCalls, lostCalls, pc, seen, last, everPaused>>

\* m.PerfErrChan <- err: blocks while the channel is full.
LoopSendErr(i) ==
    /\ ~panicked /\ loops[i].pc = "senderr"
    /\ errChan < ErrChanCap
    /\ errChan' = errChan + 1
    /\ CallRead(i)
    /\ UNCHANGED <<opts, snap, state, stateLock, perfReader, readers, wg, stats,
                   nreads, dataCalls, lostCalls, pc, seen, last, everPaused>>

\* A record that reports lost samples.
LoopLost(i) ==
    LET rec == loops[i].rec IN
    /\ ~panicked /\ loops[i].pc = "have" /\ ~rec.err /\ IsLost(rec)
    /\ stats' = IF opts.PerfMapStats
                THEN [stats EXCEPT !.LostSamples =
                          MapAdd(@, rec.CPU, rec.LostSamples)]
                ELSE stats
    /\ lostCalls' = IF opts.LostHandler
                    THEN Append(lostCalls, <<rec.CPU, rec.LostSamples>>)
                    ELSE lostCalls
    /\ CallRead(i)
    /\ UNCHANGED <<opts, snap, state, stateLock, perfReader, readers, wg, errChan,
                   nreads, dataCalls, pc, seen, last, everPaused>>

\* A live record.
LoopLive(i) ==
    LET rec == loops[i].rec IN
    /\ ~panicked /\ loops[i].pc = "have" /\ ~rec.err /\ ~IsLost(rec)
    /\ stats' = IF opts.PerfMapStats
                THEN [stats EXCEPT !.RawSamples =
                          MapAdd(@, rec.CPU, rec.RawSample)]
                ELSE stats
    /\ dataCalls' = Append(dataCalls, rec)
    /\ CallRead(i)
    /\ UNCHANGED <<opts, snap, state, stateLock, perfReader, readers, wg, errChan,
                   nreads, lostCalls, pc, seen, last, everPaused>>

\* A caller computes new.Diff(old) on its two snapshots.
DiffCall ==
    /\ snap.diff = NotCalled
    /\ snap' = [snap EXCEPT !.diff = Diff(snap.new, snap.old)]
    /\ UNCHANGED <<opts, state, stateLock, perfReader, readers, loops, wg,
                   stats, errChan, nreads, dataCalls, lostCalls, pc, seen,
                   last, everPaused, panicked>>

\* The owner of PerfErrChan receives one error.
DrainErr ==
    /\ ~panicked /\ errChan > 0
    /\ errChan' = errChan - 1
    /\ UNCHANGED <<opts, snap, state, stateLock, perfReader, readers, loops, wg,
                   stats, nreads, dataCalls, lostCalls, pc, seen, last,
                   everPaused, panicked>>

(***************************************************************************)
(* The specifications.  The model is checked in three slices; each has the *)
(* whole state and differs in who acts.                                    *)
(*                                                                         *)
(* Spec: the lifecycle.  Both callers call every method in any order and   *)
(* concurrently; the goroutines are launched, register and exit, and the   *)
(* kernel yields no record.                                                *)
(*                                                                         *)
(* SpecSequence: one caller runs Init, Start, any number of Pause/Resume   *)
(* pairs, and Stop (nothing but Stop follows a Stop), while the kernel     *)
(* yields live records.                                                    *)
(*                                                                         *)
(* SpecRecords: the record handling.  One caller runs Init, one Start and  *)
(* Stop, while the kernel yields live records, lost-sample records and     *)
(* read errors, under every combination of the optional PerfMapOptions     *)
(* fields.                                                                 *)
(*                                                                         *)
(* SpecDiff: Diff is called on any two statistics snapshots.               *)
(*                                                                         *)
(* SpecOrder: the delivery of live records.  One caller calls every method *)
(* in any order while the kernel yields live records on every lane.        *)
(***************************************************************************)
AllOptions == [DataHandler |-> TRUE, LostHandler |-> TRUE,
               PerfErrChan |-> TRUE, PerfMapStats |-> TRUE]

LifeStep(t) ==
    \/ PerfMapInit(t)
    \/ Start(t)
    \/ \E cleanup \in CleanupTypes : Stop(t, cleanup)

PauseResumeStep(t) ==
    \/ PauseEnter(t)
    \/ PauseCall(t)
    \/ PauseWrite(t)
    \/ ResumeEnter(t)
    \/ ResumeCall(t)
    \/ ResumeWrite(t)

LaunchExitStep(i) ==
    \/ LoopAdd(i)
    \/ LoopReadClosed(i)

\* Lifecycle: the DataHandler is set or missing, the other options are set.
InitLifecycle ==
    /\ snap = NoSnapshot
    /\ opts \in {AllOptions, [AllOptions EXCEPT !.DataHandler = FALSE]}
    /\ Init

Next ==
    \/ \E t \in Callers : LifeStep(t)
    \/ \E t \in Callers : PauseResumeStep(t)
    \/ \E i \in LoopIds : LaunchExitStep(i)

Spec == InitLifecycle /\ [][Next]_vars

InitSequence ==
    /\ snap = NoSnapshot
    /\ opts = AllOptions
    /\ Init

SequenceResults == {Result(FALSE, 0, 0, 1)}

NextSequence ==
    \/ PerfMapInit("c1")
    \/ Start("c1") /\ state = initialized
    \/ PauseEnter("c1") /\ state = running /\ last.op # "Stop"
    \/ PauseCall("c1")
    \/ PauseWrite("c1")
    \/ ResumeEnter("c1") /\ state = paused /\ last.op # "Stop"
    \/ ResumeCall("c1")
    \/ ResumeWrite("c1")
    \/ \E cleanup \in CleanupTypes : Stop("c1", cleanup) /\ state = running
    \/ \E i \in LoopIds : LaunchExitStep(i)
    \/ \E i \in LoopIds, res \in SequenceResults : LoopReadReturn(i, res)
    \/ \E i \in LoopIds : LoopLive(i)

SpecSequence == InitSequence /\ [][NextSequence]_vars

InitRecords ==
    /\ snap = NoSnapshot
    /\ opts \in OptionSets /\ opts.DataHandler
    /\ Init

NextRecords ==
    \/ PerfMapInit("c1")
    \/ Start("c1") /\ state = initialized
    \/ \E cleanup \in CleanupTypes : Stop("c1", cleanup)
    \/ \E i \in LoopIds : LaunchExitStep(i)
    \/ \E i \in LoopIds, res \in ReadResults : LoopReadReturn(i, res)
    \/ \E i \in LoopIds : LoopReadError(i)
    \/ \E i \in LoopIds : LoopSendErr(i)
    \/ \E i \in LoopIds : LoopLost(i)
    \/ \E i \in LoopIds : LoopLive(i)
    \/ DrainErr

SpecRecords == InitRecords /\ [][NextRecords]_vars

\* The live records the kernel can yield.
LiveResults == {Result(FALSE, c, 0, l) : c \in CPUs, l \in Lens}

NextOrder ==
    \/ LifeStep("c1")
    \/ PauseResumeStep("c1")
    \/ \E i \in LoopIds : LaunchExitStep(i)
    \/ \E i \in LoopIds, res \in LiveResults : LoopReadReturn(i, res)
    \/ \E i \in LoopIds : LoopLive(i)

SpecOrder == InitSequence /\ [][NextOrder]_vars

InitDiff ==
    /\ opts = AllOptions
    /\ Init

NextDiff == DiffCall

SpecDiff == InitDiff /\ [][NextDiff]_vars

(***************************************************************************)
(* Properties.                                                             *)
(***************************************************************************)
\* The goroutines that were launched and have not returned.
AliveLoops == {i \in LoopIds : loops[i].pc # "done"}

\* The kernel reader handles that were opened and are not closed.
UnclosedReaders == {h \in 1..Len(readers) : ~readers[h].closed}

\* C1: in every reachable state, under any interleaving of Init, Start, Stop,
\* Pause and Resume calls, at most one consumption loop of the PerfMap is
\* alive and at most one kernel reader handle it opened is unclosed.
C1_OneLoopOneHandle ==
    /\ Cardinality(AliveLoops) <= 1
    /\ Cardinality(UnclosedReaders) <= 1

\* Loop i is released: it has returned, or the Read it is blocked in (or
\* the Read it is about to call, on the handle m.perfReader names) fails
\* with ErrClosed without any further call on the PerfMap.
Released(i) ==
    \/ loops[i].pc = "done"
    \/ loops[i].pc = "reading" /\ readers[loops[i].h].closed
    \/ /\ loops[i].pc \notin {"done", "reading"}
       /\ perfReader # 0
       /\ readers[perfReader].closed

\* C2: once a Stop that found the state running or paused has returned nil
\* on a PerfMap whose Start had succeeded, every loop launched for it is
\* released, so that it calls wg.Done and exits and the wait-group counter
\* reaches zero.  (The loops of this PerfMap only exit on ErrClosed: a loop
\* that is not released when Stop returns stays registered for as long as
\* no further call is made.)
C2_StopReleasesLoops ==
    (/\ last.op = "Stop" /\ last.ret = "nil"
     /\ last.pre \in {running, paused}
     /\ Len(loops) > 0)
    => \A i \in LoopIds : Released(i)

\* C3: once Start has returned success, the wait-group counter is zero only
\* when no loop of the PerfMap is still executing or about to execute.
C3_WaitSeesEveryLoop ==
    (Len(loops) > 0 /\ wg = 0) => AliveLoops = {}

\* What a call changes besides its return value.
Effects == <<opts, snap, state, stateLock, perfReader, readers, loops, wg, stats,
             errChan, nreads, dataCalls, lostCalls, pc, seen, everPaused,
             panicked>>

\* C4 as stated: a Start on a state below initialized returns
\* ErrMapNotInitialized, opens no handle, launches no loop and leaves the
\* state unchanged; a Start on an initialized PerfMap returns success and
\* leaves the state running.
C4_StartAfterInitSucceeds ==
    [][\A t \in Callers : Start(t) =>
          IF state < initialized
          THEN /\ last' = [op |-> "Start", ret |-> "ErrMapNotInitialized",
                           pre |-> state]
               /\ UNCHANGED <<state, perfReader, readers, loops>>
          ELSE /\ last'.op = "Start" /\ last'.ret = "nil"
               /\ state' = running]_vars

\* C4: a Start on a state below initialized returns ErrMapNotInitialized,
\* opens no handle, launches no loop and leaves the state unchanged; a Start
\* on an initialized PerfMap returns success and leaves the state running,
\* unless opening the kernel reader fails: then it returns that error,
\* launches no loop and leaves the state unchanged.
C4_StartGuard ==
    [][\A t \in Callers : Start(t) =>
          IF state < initialized
          THEN /\ last' = [op |-> "Start", ret |-> "ErrMapNotInitialized",
                           pre |-> state]
               /\ UNCHANGED <<state, perfReader, readers, loops>>
          ELSE \/ /\ last'.op = "Start" /\ last'.ret = "nil"
                  /\ state' = running
               \/ /\ last'.op = "Start" /\ last'.ret = "ErrKernel"
                  /\ UNCHANGED <<state, readers, loops>>]_vars

\* A Start on an initialized PerfMap has failed to open the kernel reader.
C4_Witness ==
    /\ last = [op |-> "Start", ret |-> "ErrKernel", pre |-> initialized]
    /\ state = initialized
    /\ readers = <<>> /\ loops = <<>>

\* C5: a Start made when the state is running returns success and changes
\* nothing: no handle is opened, no loop is launched, the wait-group counter
\* and the state are unchanged.
C5_StartIdempotent ==
    [][\A t \in Callers : (Start(t) /\ state = running) =>
          /\ last' = [op |-> "Start", ret |-> "nil", pre |-> running]
          /\ UNCHANGED Effects]_vars

\* A Start has returned from a running PerfMap.
C5_Witness ==
    /\ last = [op |-> "Start", ret |-> "nil", pre |-> running]
    /\ state = running
    /\ Len(readers) = 1 /\ Len(loops) = 1

\* C6: a Pause on a PerfMap that is not running (uninitialized, initialized,
\* already paused) returns ErrMapNotRunning, issues no pause call on the
\* kernel handle and leaves the state unchanged.
C6_PauseGuard ==
    [][\A t \in Callers : (PauseEnter(t) /\ state < running) =>
          /\ last' = [op |-> "Pause", ret |-> "ErrMapNotRunning",
                      pre |-> state]
          /\ UNCHANGED Effects]_vars

\* A Pause has been refused on a paused PerfMap.
C6_Witness ==
    /\ last = [op |-> "Pause", ret |-> "ErrMapNotRunning", pre |-> paused]
    /\ state = paused
    /\ everPaused

\* C7 as stated: a Resume on a PerfMap that has never been paused
\* (uninitialized, initialized, or running without a preceding Pause) fails
\* with ErrMapNotRunning, issues no resume call on the kernel handle and
\* leaves the state unchanged.
C7_ResumeNeverPaused ==
    [][\A t \in Callers : (ResumeEnter(t) /\ ~everPaused) =>
          /\ last' = [op |-> "Resume", ret |-> "ErrMapNotRunning",
                      pre |-> state]
          /\ UNCHANGED Effects]_vars

\* C7: a Resume on a PerfMap whose state is below paused (uninitialized or
\* initialized) fails with ErrMapNotRunning, issues no resume call on the
\* kernel handle and leaves the state unchanged.  A Resume on a running
\* PerfMap, paused before or not, is not refused: it goes on to the resume
\* call on the kernel handle, and when that succeeds it returns success and
\* leaves the state running.
C7_ResumeGuard ==
    [][\A t \in Callers :
          /\ ResumeEnter(t) =>
                IF state < paused
                THEN /\ last' = [op |-> "Resume", ret |-> "ErrMapNotRunning",
                                 pre |-> state]
                     /\ UNCHANGED Effects
                ELSE /\ pc'[t] = "resume_call"
                     /\ UNCHANGED <<last, state, readers>>
          /\ (ResumeCall(t) /\ ~panicked') =>
                \/ /\ pc'[t] = "resume_write"
                   /\ ~readers'[perfReader].closed
                         => ~readers'[perfReader].paused
                   /\ UNCHANGED <<last, state>>
                \/ /\ pc'[t] = "idle" /\ last'.ret = "ErrKernel"
                   /\ UNCHANGED <<state, readers>>
          /\ ResumeWrite(t) =>
                /\ last'.op = "Resume" /\ last'.ret = "nil"
                /\ state' = running]_vars

\* A Resume has been refused on an initialized PerfMap that was never paused.
C7_Witness ==
    /\ last = [op |-> "Resume", ret |-> "ErrMapNotRunning",
               pre |-> initialized]
    /\ state = initialized
    /\ ~everPaused

\* C8: a Stop that finds the state running or paused and returns nil has
\* closed the kernel reader handle and left the state closed; a Stop is a
\* no-op (no kernel call, state unchanged, nil returned) only when the state
\* is uninitialized or initialized (or already closed).
C8_StopClosesRunningOrPaused ==
    [][\A t \in Callers : \A cleanup \in CleanupTypes :
          (Stop(t, cleanup) /\ ~panicked') =>
              /\ (state \in {running, paused} /\ last'.ret = "nil") =>
                    /\ perfReader # 0
                    /\ readers'[perfReader].closed
                    /\ state' = closed
              /\ (last'.ret = "nil" /\ UNCHANGED <<state, readers>>) =>
                    state \in {reset, initialized, closed}]_vars

\* In the sequence Start, N x (Pause, Resume), Stop of one caller: a Pause
\* has returned success and the following Resume has not been called yet.
PausedWindow == state = paused /\ pc["c1"] = "idle"

\* Neither Pause nor Resume opens a kernel handle or launches or registers a
\* loop, the wait-group is incremented once (by the loop Start launched, when
\* it starts), and after a successful Resume that same loop is consuming
\* from the same handle, which yields records again.
SameLoopThroughout ==
    /\ PauseResumeStep("c1") =>
          /\ Len(readers') = Len(readers)
          /\ UNCHANGED <<perfReader, loops, wg>>
    /\ wg' > wg =>
          /\ wg = 0 /\ wg' = 1
          /\ Len(loops) = 1
          /\ loops[1].pc = "spawned" /\ loops'[1].pc # "spawned"
    /\ ResumeWrite("c1") =>
          /\ Len(loops') = 1 /\ loops'[1].pc # "done"
          /\ loops'[1].pc = "reading" => loops'[1].h = perfReader'
          /\ ~readers'[perfReader'].paused

\* C9 as stated: in the sequence Start, N x (Pause, Resume), Stop, no record
\* is delivered to DataHandler between a successful Pause and the following
\* Resume, and neither Pause nor Resume opens a handle or launches or
\* registers a loop.
C9_NothingDeliveredWhilePaused ==
    [][/\ PausedWindow => dataCalls' = dataCalls
       /\ SameLoopThroughout]_vars

\* C9: in the sequence Start, N x (Pause, Resume), Stop, no record is read
\* from the kernel handle between a successful Pause and the following
\* Resume, and the only record that can be delivered to DataHandler in
\* between is the one the loop had already read when the kernel handle was
\* paused (after it, every record read has been delivered); neither Pause
\* nor Resume opens a handle or launches or registers a loop.
C9_NothingReadWhilePaused ==
    [][/\ PausedWindow =>
             /\ nreads' = nreads
             /\ dataCalls' # dataCalls =>
                   /\ loops[1].pc = "have"
                   /\ dataCalls' = Append(dataCalls, loops[1].rec)
                   /\ Len(dataCalls') = nreads
       /\ SameLoopThroughout]_vars

\* A Pause and the Resume that followed it have succeeded, every record the
\* kernel yielded has been delivered, and one loop is registered on one
\* handle.
C9_Witness ==
    /\ everPaused
    /\ last = [op |-> "Resume", ret |-> "nil", pre |-> paused]
    /\ state = running
    /\ Len(dataCalls) = MaxReads
    /\ Len(loops) = 1 /\ Len(readers) = 1 /\ wg = 1

\* C10: when the loop handles a record that reports n > 0 lost samples on
\* lane c, DataHandler is not invoked, RawSamples (and ReadErrors) are
\* unchanged, LostSamples[c] grows by exactly n and no other lane changes
\* (when stats are enabled; nothing is counted otherwise), and LostHandler
\* (when set) is invoked exactly once, with (c, n).
C10_LostRecord ==
    [][\A i \in LoopIds :
          LET rec == loops[i].rec
              c   == rec.CPU
              n   == rec.LostSamples
              old == stats.LostSamples
              new == stats'.LostSamples
          IN  (/\ loops[i].pc = "have" /\ ~rec.err /\ n > 0
               /\ (loops'[i] # loops[i] \/ panicked' # panicked)) =>
                 /\ dataCalls' = dataCalls
                 /\ stats'.RawSamples = stats.RawSamples
                 /\ stats'.ReadErrors = stats.ReadErrors
                 /\ IF opts.PerfMapStats
                    THEN /\ DOMAIN new = DOMAIN old \cup {c}
                         /\ new[c] = (IF c \in DOMAIN old THEN old[c] ELSE 0) + n
                         /\ \A d \in DOMAIN old \ {c} : new[d] = old[d]
                    ELSE new = old
                 /\ lostCalls' = IF opts.LostHandler
                                 THEN Append(lostCalls, <<c, n>>)
                                 ELSE lostCalls]_vars

\* One record reporting 5 lost samples on lane 1 has been handled.
C10_Witness ==
    /\ nreads = 1 /\ Len(loops) = 1 /\ loops[1].pc = "reading"
    /\ lostCalls = <<<<1, 5>>>>
    /\ DOMAIN stats.LostSamples = {1} /\ stats.LostSamples[1] = 5
    /\ DOMAIN stats.RawSamples = {}
    /\ dataCalls = <<>>

\* C11: the sequence of DataHandler invocations is always a prefix of the
\* sequence of live records the kernel yielded (every record yielded here is
\* live, and seq numbers them in yield order): nothing is reordered,
\* duplicated or skipped, whatever the calls to Start, Pause, Resume and Stop.
C11_DeliveredInYieldOrder ==
    \A k \in 1..Len(dataCalls) : dataCalls[k].seq = k

\* The sum of the byte lengths of the records of calls that are on lane c.
RECURSIVE BytesOnLane(_, _)
BytesOnLane(calls, c) ==
    IF calls = <<>> THEN 0
    ELSE (IF Head(calls).CPU = c THEN Head(calls).RawSample ELSE 0)
         + BytesOnLane(Tail(calls), c)

\* C12: with accounting enabled, whenever the loop is between records,
\* RawSamples[c] is the sum of the byte lengths of the live records on lane c
\* delivered to DataHandler so far, and no other lane is counted.
C12_RawSamplesIsBytesDelivered ==
    opts.PerfMapStats =>
        /\ DOMAIN stats.RawSamples = {dataCalls[k].CPU : k \in 1..Len(dataCalls)}
        /\ \A c \in CPUs : MapGet(stats.RawSamples, c) = BytesOnLane(dataCalls, c)

\* Records of 1 and 2 bytes on lane 0 were delivered in that order, then
\* the reader was stopped.
C12_Witness ==
    /\ opts.PerfMapStats
    /\ last.op = "Stop" /\ last.ret = "nil" /\ last.pre = running
    /\ Len(dataCalls) = 2
    /\ dataCalls[1].CPU = 0 /\ dataCalls[1].RawSample = 1
    /\ dataCalls[2].CPU = 0 /\ dataCalls[2].RawSample = 2
    /\ stats.RawSamples[0] = 3

\* C13: Diff(new, old) is nil when either argument is nil; otherwise it is
\* an accumulator with ReadErrors = new.ReadErrors - old.ReadErrors and, for
\* exactly the lanes present in new, RawSamples[lane] and LostSamples[lane]
\* the difference of new's and old's values, a lane absent from old counting
\* as 0 (the differences are those of unsigned counters: they wrap around).
\* Both inputs are left unchanged.
C13_Diff ==
    [][DiffCall =>
          LET new  == snap.new
              old  == snap.old
              diff == snap'.diff
              Minus(a, b) == (a + 2 ^ WordBits - b) % (2 ^ WordBits)
              OldOr0(m, c) == IF c \in DOMAIN m THEN m[c] ELSE 0
          IN  /\ snap'.new = new /\ snap'.old = old
              /\ IF new = [nil |-> TRUE] \/ old = [nil |-> TRUE]
                 THEN diff = [nil |-> TRUE]
                 ELSE /\ diff.ReadErrors = Minus(new.ReadErrors, old.ReadErrors)
                      /\ DOMAIN diff.RawSamples = DOMAIN new.RawSamples
                      /\ \A c \in DOMAIN new.RawSamples :
                            diff.RawSamples[c] =
                               Minus(new.RawSamples[c], OldOr0(old.RawSamples, c))
                      /\ DOMAIN diff.LostSamples = DOMAIN new.LostSamples
                      /\ \A c \in DOMAIN new.LostSamples :
                            diff.LostSamples[c] =
                               Minus(new.LostSamples[c], OldOr0(old.LostSamples, c))
      ]_vars

\* Diff was called with lane 0 in both snapshots, lane 1 only in new and, for
\* the lost samples, lane 1 only in old.
C13_Witness ==
    /\ snap.diff # NotCalled /\ snap.diff # NilStats
    /\ DOMAIN snap.new.RawSamples = {0, 1}
    /\ DOMAIN snap.old.RawSamples = {0}
    /\ snap.new.RawSamples[0] = Word - 1 /\ snap.old.RawSamples[0] = 1
    /\ snap.diff.RawSamples[0] = Word - 2
    /\ snap.diff.RawSamples[1] = snap.new.RawSamples[1]
    /\ DOMAIN snap.new.LostSamples = {0}
    /\ DOMAIN snap.old.LostSamples = {0, 1}
    /\ DOMAIN snap.diff.LostSamples = {0}

\* C14: an Init on a PerfMap without DataHandler returns the configuration
\* error, does not run the embedded Map's Init and changes nothing: the state
\* stays uninitialized, and a Start that follows returns
\* ErrMapNotInitialized.
C14_InitWithoutDataHandler ==
    [][~opts.DataHandler =>
          /\ state = reset /\ state' = reset
          /\ \A t \in Callers :
                /\ PerfMapInit(t) =>
                      /\ last' = [op |-> "Init", ret |-> "ErrNoDataHandler",
                                  pre |-> reset]
                      /\ UNCHANGED Effects
                /\ Start(t) =>
                      /\ last' = [op |-> "Start",
                                  ret |-> "ErrMapNotInitialized", pre |-> reset]
                      /\ UNCHANGED Effects]_vars

\* An Init has been refused for want of a DataHandler.
C14_Witness ==
    /\ ~opts.DataHandler
    /\ last = [op |-> "Init", ret |-> "ErrNoDataHandler", pre |-> reset]
    /\ state = reset /\ readers = <<>>

\* C15: a Stop that is not a no-op closes the kernel reader and then the
\* embedded map, the second even when the first fails.  It returns nil if and
\* only if both succeeded; otherwise the error it returns names every step
\* that failed: the map's error never masks the reader's.
C15_StopReportsEveryFailure ==
    [][\A t \in Callers : \A cleanup \in CleanupTypes :
          (Stop(t, cleanup) /\ state >= running /\ ~panicked') =>
              LET readerClosed == readers'[perfReader].closed
                  mapClosed    == state' = closed
              IN  /\ last'.op = "Stop"
                  /\ last'.ret = "nil" => (readerClosed /\ mapClosed)
                  /\ mapClosed <=> last'.ret \in {"nil", "errReader"}
                  /\ ~readers[perfReader].closed =>
                        last'.ret =
                           IF mapClosed
                           THEN (IF readerClosed THEN "nil" ELSE "errReader")
                           ELSE (IF readerClosed THEN "errMap"
                                 ELSE "errMap+errReader")]_vars

\* A Stop whose two steps both failed has returned the composite error.
C15_Witness ==
    /\ last = [op |-> "Stop", ret |-> "errMap+errReader", pre |-> running]
    /\ state = running
    /\ perfReader # 0 /\ ~readers[perfReader].closed

\* C16: calls on one PerfMap are serialized: the state the guard of a Pause
\* or of a Resume observed is still the state when that call issues its
\* kernel call and when it writes the state.
C16_GuardStillHolds ==
    [][\A t \in Callers :
          (PauseCall(t) \/ PauseWrite(t) \/ ResumeCall(t) \/ ResumeWrite(t))
              => state = seen[t]]_vars

\* C17: no double close and no use after close: Stop never issues Close on
\* a kernel reader handle that is closed already, and Pause and Resume never
\* issue their kernel call on a handle that is closed.
C17_NoCallOnClosedHandle ==
    [][\A t \in Callers :
          /\ (\E cleanup \in CleanupTypes : Stop(t, cleanup) /\ state >= running)
                => (perfReader # 0 => ~readers[perfReader].closed)
          /\ (PauseCall(t) \/ ResumeCall(t))
                => (perfReader # 0 => ~readers[perfReader].closed)]_vars

\* C18: when the kernel call of Start (opening the reader), of Pause or of
\* Resume fails, the call returns that error and leaves the resource as it
\* was: the state, the loops and the kernel reader that m.perfReader refers to
\* are unchanged.
C18_FailedCallChangesNothing ==
    [][\A t \in Callers :
          /\ (Start(t) /\ last'.ret = "ErrKernel")
                => UNCHANGED <<state, perfReader, readers, loops, wg>>
          /\ ((PauseCall(t) \/ ResumeCall(t)) /\ pc'[t] = "idle" /\ ~panicked')
                => /\ last'.ret = "ErrKernel"
                   /\ UNCHANGED <<state, perfReader, readers, loops, wg>>]_vars

\* C19: the loop returns only when Read fails with ErrClosed.  For a read
\* that fails with another error it adds one to ReadErrors (when stats are
\* enabled), sends the error once on PerfErrChan (when set), invokes no
\* handler and goes on to the next Read.  Nothing else is sent on PerfErrChan.
C19_ReadErrorsAreAbsorbed ==
    [][/\ \A i \in LoopIds :
             LET acts == loops'[i] # loops[i] IN
             /\ (loops[i].pc = "have" /\ loops[i].rec.err /\ acts) =>
                   /\ stats'.ReadErrors =
                         stats.ReadErrors + (IF opts.PerfMapStats THEN 1 ELSE 0)
                   /\ stats'.RawSamples = stats.RawSamples
                   /\ stats'.LostSamples = stats.LostSamples
                   /\ UNCHANGED <<dataCalls, lostCalls, wg, errChan>>
                   /\ loops'[i].pc =
                         IF opts.PerfErrChan THEN "senderr" ELSE "reading"
             /\ (loops[i].pc = "senderr" /\ acts) =>
                   /\ opts.PerfErrChan
                   /\ errChan' = errChan + 1
                   /\ UNCHANGED <<stats, dataCalls, lostCalls, wg>>
                   /\ loops'[i].pc = "reading"
             /\ (loops[i].pc # "done" /\ loops'[i].pc = "done") =>
                   /\ loops[i].pc = "reading"
                   /\ readers[loops[i].h].closed
                   /\ wg' = wg - 1
       /\ errChan' > errChan =>
             \E i \in LoopIds :
                /\ loops[i].pc = "senderr" /\ loops[i].rec.err
                /\ loops'[i].pc = "reading"]_vars

\* One read has failed: it was counted, its error is in PerfErrChan, no
\* handler was invoked and the loop is in its next Read.
C19_Witness ==
    /\ nreads = 1 /\ Len(loops) = 1 /\ loops[1].pc = "reading"
    /\ opts.PerfMapStats /\ stats.ReadErrors = 1
    /\ opts.PerfErrChan /\ errChan = 1
    /\ dataCalls = <<>> /\ lostCalls = <<>>
    /\ wg = 1

\* C20: whenever the state is running or paused, m.perfReader refers to a
\* kernel reader handle that exists and is not closed, and a loop that has
\* not returned is reading from that handle (or is about to call Read).
C20_RunningHasOpenReader ==
    state \in {running, paused} =>
        /\ perfReader # 0
        /\ ~readers[perfReader].closed
        /\ \E i \in AliveLoops :
              loops[i].pc = "reading" => loops[i].h = perfReader

=============================================================================
